---- MODULE Spec2Model ----
(***************************************************************************)
(* A model of the ESG dictionary pipeline:                                 *)
(*   - sort_word_list and get_word_list of step5-gen-dictionary-OPTIMIZED  *)
(*   - combine_dictionaries of combine_dictionaries_to_csv                 *)
(*   - run_preprocessing / process_chunk_wrapper / process_batch of        *)
(*     step1-preprocessing                                                 *)
(*   - run_dump_all_sentences of step2-dump-sentences                      *)
(*   - the phrase injection of run_word2vec of step4-word2vec-OPTIMIZED    *)
(* A Python dict is modelled as a sequence of <<key, value>> pairs with    *)
(* pairwise different keys, in insertion order.  A similarity is an        *)
(* integer number of tenths (9 stands for 0.9).                            *)
(***************************************************************************)
EXTENDS Integers, Sequences, FiniteSets, TLC

VARIABLES
    \* ---- sort_word_list applied to an arbitrary candidate mapping
    spc,        \* "input" | "sorted" | "resorted"
    kw,         \* the argument keywords_list: dict category -> [(word, similarity)]
    res,        \* the returned dict category -> [word]
    kw2,        \* res with every word carrying the similarity it won with
    res2,       \* sort_word_list(kw2)
    \* ---- get_word_list and combine_dictionaries
    dpc,        \* "idle" | "expand" | "dedup" | "save" | "done" | "crashed"
    seeds,      \* SEED_WORD_DICT: dict category -> [seed term]
    vocab,      \* the tokens of model.wv
    pairSim,    \* 1 - distance of two different tokens, in tenths
    ci,         \* position of the category loop of get_word_list in the seed dict
    cand,       \* keywords_list before deduplication: category -> [(word, similarity)]
    out,        \* keywords_list after sort_word_list: category -> [word]
    files,      \* words/<category>.txt for every category: File(lines) or NoFile
    runs,       \* number of get_word_list runs started
    csv,        \* environmental_dictionary.csv: File(rows <<word, category>>) or NoFile
    csvRun,     \* the value of runs when the csv was written
    \* ---- run_preprocessing
    ppc,        \* "load" | "returned" | "loop" | "pool" | "done" | "crashed"
    csvHead,    \* articles_id_content.csv: whether it can be read, and its columns
    csvRows,    \* the 'content' column of articles_id_content.csv; the id is the row number
    disk,       \* data/processed_df/<chunk_idx>.feather: File(rows) or NoFile
    chunk_idx,  \* the chunk loop variable
    work_items, \* the sub-batches handed to the pool
    results,    \* per work item: Pending, or the list the worker returned
    finished,   \* the work items of the current pool in the order their workers finished
    started,    \* per chunk index: how many pools were started for it
    restarts,   \* how often the run was stopped and started again
    stops,      \* for every stop: the loop position the run was stopped at
    \* ---- process_batch applied to an arbitrary batch
    tpc,        \* "input" | "returned"
    tbatch,     \* the argument texts
    traises,    \* whether nlp.pipe raised on the batch
    tres,       \* the returned list
    \* ---- run_dump_all_sentences
    upc,           \* "idle" | "writing" | "done" | "failed"
    outfile,       \* all_sentences/all.txt on disk: File(characters) or NoFile
    process_files, \* the sorted list of the artifacts found
    fpos,          \* position of the file loop in process_files
    dpos,          \* position of the document loop in the artifact read
    pending,       \* characters written to f that are still in its buffer
    total_docs,    \* the counter total_docs
    dumpRuns,      \* number of run_dump_all_sentences runs started
    prev,          \* what the current run found as all.txt when it opened it
    \* ---- the phrase models applied to a sentence in run_word2vec
    hpc,           \* "loaded" | "injected" | "bigrams" | "done"
    sentence,      \* a sentence of the corpus: a list of tokens
    phrases2,      \* bigram.phrasegrams: the keys, each the list of its words
    phrases3,      \* trigram.phrasegrams
    stream         \* the sentence as it goes through bigram[...] and trigram[...]

sortVars == <<spc, kw, res, kw2, res2>>
dictVars == <<dpc, seeds, vocab, pairSim, ci, cand, out, files, runs, csv, csvRun>>
preVars == <<ppc, csvHead, csvRows, disk, chunk_idx, work_items, results, finished, started, restarts,
            stops>>
tokVars == <<tpc, tbatch, traises, tres>>
dumpVars == <<upc, outfile, process_files, fpos, dpos, pending, total_docs, dumpRuns, prev>>
phrVars == <<hpc, sentence, phrases2, phrases3, stream>>
restVars == <<tokVars, dumpVars, phrVars>>
vars == <<sortVars, dictVars, preVars, restVars>>

-----------------------------------------------------------------------------
(* Bounds and universes *)

MaxCand == 2                                  \* longest candidate list of SpecSort
Categories == <<"Climate", "Waste">>          \* seed mapping keys, insertion order
Words == {"emission", "landfill", "recycling"}
SimLevels == {3, 8, 9}                        \* similarities in tenths
TOP_N == 2                                    \* top-N of get_word_list (50 in the source), scaled
MaxSeeds == 2                                 \* longest seed list of a category
MaxRuns == 2                                  \* get_word_list runs of SpecRuns
SelfSim == 10                                 \* 1 - distance of a token to itself: 1.0
ModelSims == {3, 8}                           \* similarities of different tokens
SeedTerms == Words \cup {"Landfill "}         \* seed strings as written in seedwords.py
CHUNKSIZE == 3                                \* documents per chunk (10000 in the source), scaled
BATCH_SIZE == 1                               \* documents per nlp.pipe call (500), scaled
N_PROCESS == 2                                \* pool size (16), scaled
MaxDocs == 4                                  \* most rows of the input csv
MaxRestarts == 1                              \* most restarts of run_preprocessing
MIN_CHARS == 2                                \* shortest text that is tokenized (10), scaled
MaxTextLen == 3                               \* longest text of SpecTok, in characters
\* the characters of the texts of SpecTok: whitespace, letters, the characters
\* the lemma rewrites look for, and a sentence end
Chars == {" ", "\n", "a", "A", "s", "_", "-", "."}
MaxDumpDocs == 2                              \* most rows of an artifact of SpecDump
MaxDumpRuns == 2                              \* most runs of run_dump_all_sentences
MaxSentLen == 3                               \* longest sentence of SpecPhrase, in tokens
NoFile == [exists |-> FALSE, lines |-> <<>>]  \* a path without a file
File(l) == [exists |-> TRUE, lines |-> l]     \* a file and its lines
NoHead == [readable |-> FALSE, columns |-> {}] \* a csv that pd.read_csv cannot load

-----------------------------------------------------------------------------
(* Python containers *)

Range(s) == {s[i] : i \in DOMAIN s}

DictKeys(d) == {d[i][1] : i \in DOMAIN d}

DictHas(d, k) == k \in DictKeys(d)

DictGet(d, k) == d[CHOOSE i \in DOMAIN d : d[i][1] = k][2]

\* d[k].append(x) if k in d else d[k] = [x]
DictAppend(d, k, x) ==
    IF DictHas(d, k)
    THEN [i \in DOMAIN d |-> IF d[i][1] = k THEN <<k, Append(d[i][2], x)>> ELSE d[i]]
    ELSE Append(d, <<k, <<x>>>>)

\* the list v with x put behind every element whose similarity is >= x's
InsertDesc(v, x) ==
    LET n == Cardinality({i \in DOMAIN v : v[i][2] >= x[2]})
    IN  SubSeq(v, 1, n) \o <<x>> \o SubSeq(v, n + 1, Len(v))

\* the ties-reversing variant: x goes before the elements of equal similarity
InsertDescTiesFirst(v, x) ==
    LET n == Cardinality({i \in DOMAIN v : v[i][2] > x[2]})
    IN  SubSeq(v, 1, n) \o <<x>> \o SubSeq(v, n + 1, Len(v))

RECURSIVE SortDescTiesReversed(_)
SortDescTiesReversed(v) ==
    IF v = <<>> THEN <<>>
    ELSE InsertDescTiesFirst(SortDescTiesReversed(SubSeq(v, 1, Len(v) - 1)), v[Len(v)])

RECURSIVE SortAsc(_)
SortAsc(v) ==
    IF v = <<>> THEN <<>>
    ELSE LET s == SortAsc(SubSeq(v, 1, Len(v) - 1))
             x == v[Len(v)]
             n == Cardinality({i \in DOMAIN s : s[i][2] <= x[2]})
         IN  SubSeq(s, 1, n) \o <<x>> \o SubSeq(s, n + 1, Len(s))

\* v.sort(reverse=True, key=lambda x: x[1]): stable, highest similarity first
RECURSIVE SortDesc(_)
SortDesc(v) ==
    IF v = <<>> THEN <<>>
    ELSE InsertDesc(SortDesc(SubSeq(v, 1, Len(v) - 1)), v[Len(v)])

-----------------------------------------------------------------------------
(* sort_word_list *)

\* the inner loop: every (word, similarity) of category k is appended under its word
RECURSIVE CollectList(_, _, _)
CollectList(acc, k, v) ==
    IF v = <<>> THEN acc
    ELSE CollectList(DictAppend(acc, v[1][1], <<k, v[1][2]>>), k, Tail(v))

RECURSIVE CollectDict(_, _)
CollectDict(acc, d) ==
    IF d = <<>> THEN acc
    ELSE CollectDict(CollectList(acc, d[1][1], d[1][2]), Tail(d))

\* the variant whose per-word sort puts the category seen last ahead of its ties
WordCategorySimiTiesLast(d) ==
    LET c == CollectDict(<<>>, d)
    IN  [i \in DOMAIN c |-> <<c[i][1], SortDescTiesReversed(c[i][2])>>]

\* word_category_simi: word -> [(category, similarity), ...], best category first
WordCategorySimi(d) ==
    LET c == CollectDict(<<>>, d)
    IN  [i \in DOMAIN c |-> <<c[i][1], SortDesc(c[i][2])>>]

\* the buggy variant: the word is kept under every category that listed it
RECURSIVE AssignAll(_, _)
AssignAll(acc, wcs) ==
    IF wcs = <<>> THEN acc
    ELSE LET word == wcs[1][1]
             cs   == wcs[1][2]
             RECURSIVE Put(_, _)
             Put(a, l) == IF l = <<>> THEN a
                          ELSE Put(DictAppend(a, l[1][1], <<word, l[1][2]>>), Tail(l))
         IN  AssignAll(Put(acc, cs), Tail(wcs))

\* each word goes to category_simi[0], the head of its sorted list
RECURSIVE AssignBest(_, _)
AssignBest(acc, wcs) ==
    IF wcs = <<>> THEN acc
    ELSE LET word       == wcs[1][1]
             category   == wcs[1][2][1][1]
             similarity == wcs[1][2][1][2]
         IN  AssignBest(DictAppend(acc, category, <<word, similarity>>), Tail(wcs))

\* the variant without the final per-category sort: words stay in first-seen order
SortedGroupsUnsorted(d) == AssignBest(<<>>, WordCategorySimi(d))

\* keywords_list after the per-category sort: category -> [(word, similarity)]
SortedGroups(d) ==
    LET g == AssignBest(<<>>, WordCategorySimi(d))
    IN  [i \in DOMAIN g |-> <<g[i][1], SortDesc(g[i][2])>>]

WordsOnly(v) == [j \in DOMAIN v |-> v[j][1]]

sort_word_list(d) ==
    LET g == SortedGroups(d)
    IN  [i \in DOMAIN g |-> <<g[i][1], WordsOnly(g[i][2])>>]

-----------------------------------------------------------------------------
(* SpecSort: sort_word_list on every bounded candidate mapping, then on its *)
(* own result                                                              *)

\* the candidate lists of one category: no word twice, as get_word_list builds them
CandLists ==
    {v \in UNION {[1..n -> Words \X SimLevels] : n \in 0..MaxCand} :
        \A i, j \in DOMAIN v : i # j => v[i][1] # v[j][1]}

\* the highest similarity any category of d gives to word w
BestSim(d, w) ==
    LET S == UNION {{d[i][2][j][2] : j \in {j \in DOMAIN d[i][2] : d[i][2][j][1] = w}} :
                       i \in DOMAIN d}
    IN  CHOOSE m \in S : \A x \in S : x <= m

\* a result of sort_word_list with the winning similarities of d attached
WithScores(r, d) ==
    [i \in DOMAIN r |->
        <<r[i][1], [j \in DOMAIN r[i][2] |-> <<r[i][2][j], BestSim(d, r[i][2][j])>>]>>]

TokIdle == tpc = "off" /\ tbatch = <<>> /\ traises = FALSE /\ tres = <<>>

DumpIdle ==
    /\ upc = "off" /\ outfile = NoFile /\ process_files = <<>> /\ fpos = 0
    /\ dpos = 0 /\ pending = <<>> /\ total_docs = 0 /\ dumpRuns = 0 /\ prev = "absent"

PhrIdle ==
    /\ hpc = "off" /\ sentence = <<>> /\ phrases2 = {} /\ phrases3 = {} /\ stream = <<>>

RestIdle == TokIdle /\ DumpIdle /\ PhrIdle

PreIdle ==
    /\ ppc = "off" /\ csvHead = NoHead /\ csvRows = <<>> /\ disk = <<>> /\ chunk_idx = 0 /\ work_items = <<>>
    /\ results = <<>> /\ finished = <<>> /\ started = <<>> /\ restarts = 0 /\ stops = <<>>

DictIdle ==
    /\ dpc = "off" /\ seeds = <<>> /\ vocab = {} /\ pairSim = <<>> /\ ci = 0
    /\ cand = <<>> /\ out = <<>> /\ files = <<>> /\ runs = 0 /\ csv = NoFile /\ csvRun = 0

InitSort ==
    /\ DictIdle
    /\ PreIdle
    /\ RestIdle
    /\ spc = "input"
    /\ \E f \in [DOMAIN Categories -> CandLists] :
           kw = [i \in DOMAIN Categories |-> <<Categories[i], f[i]>>]
    /\ res = <<>>
    /\ kw2 = <<>>
    /\ res2 = <<>>

Sort ==
    /\ spc = "input"
    /\ res' = sort_word_list(kw)
    /\ spc' = "sorted"
    /\ UNCHANGED <<kw, kw2, res2, dictVars, preVars, restVars>>

Resort ==
    /\ spc = "sorted"
    /\ kw2' = WithScores(res, kw)
    /\ res2' = sort_word_list(kw2')
    /\ spc' = "resorted"
    /\ UNCHANGED <<kw, res, dictVars, preVars, restVars>>

NextSort == Sort \/ Resort

SpecSort == InitSort /\ [][NextSort]_vars

-----------------------------------------------------------------------------
(* Claims about sort_word_list (SpecSort) *)

CandWords(d) == UNION {{d[i][2][j][1] : j \in DOMAIN d[i][2]} : i \in DOMAIN d}

\* the places <<i, j>> of the result dict r that hold word w
Places(r, w) ==
    UNION {{<<i, j>> : j \in {j \in DOMAIN r[i][2] : r[i][2][j] = w}} : i \in DOMAIN r}

\* category k lists word w with similarity s in d
Lists(d, k, w, s) == \E i \in DOMAIN d : d[i][1] = k /\ <<w, s>> \in Range(d[i][2])

InOutput(r, k, w) == \E i \in DOMAIN r : r[i][1] = k /\ w \in Range(r[i][2])

\* C1: every candidate word of the input is at exactly one place of the output
\* (one category, once), and the output holds nothing but candidate words.
C1_ExactlyOneCategory ==
    spc # "input" =>
        /\ \A i, j \in DOMAIN res : i # j => res[i][1] # res[j][1]
        /\ \A w \in CandWords(kw) : Cardinality(Places(res, w)) = 1
        /\ \A w \in Words \ CandWords(kw) : Places(res, w) = {}

C1_Witness ==
    /\ spc = "sorted"
    /\ CandWords(kw) = Words
    /\ \E w \in Words : \A i \in DOMAIN kw : \E s \in SimLevels : <<w, s>> \in Range(kw[i][2])

\* the spec's end-to-end scenario: emission 0.9 for Climate and 0.3 for Waste,
\* landfill 0.8 for Waste
Scenario ==
    /\ Range(DictGet(kw, "Climate")) = {<<"emission", 9>>}
    /\ Range(DictGet(kw, "Waste")) = {<<"emission", 3>>, <<"landfill", 8>>}

\* C2: a word whose similarity in category a is strictly higher than in every
\* other category listing it is in a's output and in no other output; in the
\* scenario emission is in Climate and landfill in Waste.
C2_StrictMaxWins ==
    spc # "input" =>
        /\ \A w \in Words, a \in Range(Categories), s \in SimLevels :
               (/\ Lists(kw, a, w, s)
                /\ \A b \in Range(Categories) \ {a}, t \in SimLevels :
                       Lists(kw, b, w, t) => t < s)
               => /\ InOutput(res, a, w)
                  /\ \A b \in Range(Categories) \ {a} : ~InOutput(res, b, w)
        /\ Scenario => res = << <<"Climate", <<"emission">> >>, <<"Waste", <<"landfill">> >> >>

C2_Witness ==
    /\ spc = "sorted"
    /\ Scenario
    /\ InOutput(res, "Climate", "emission")
    /\ InOutput(res, "Waste", "landfill")

\* C3: sort_word_list applied to its own result, each word carrying the
\* similarity it won with, returns that result again: same categories, same
\* words in each, same order.
C3_Idempotent == spc = "resorted" => res2 = res

C3_Witness ==
    /\ spc = "resorted"
    /\ \E i \in DOMAIN kw2 : \E j, l \in DOMAIN kw2[i][2] :
           j # l /\ kw2[i][2][j][2] = kw2[i][2][l][2]
    /\ \E w \in Words : Cardinality({i \in DOMAIN kw : \E s \in SimLevels :
                                         <<w, s>> \in Range(kw[i][2])}) = 2
    /\ Len(res) = 2

\* C16: in every category's output list the winning similarities of the words
\* never increase from one word to the next.
C16_OutputNonIncreasing ==
    spc # "input" =>
        \A i \in DOMAIN res : \A j \in 1..(Len(res[i][2]) - 1) :
            BestSim(kw, res[i][2][j]) >= BestSim(kw, res[i][2][j + 1])

\* a category lists a weaker word ahead of a stronger one, and both stay with it
C16_Witness ==
    /\ spc = "sorted"
    /\ \E i \in DOMAIN kw, o \in DOMAIN res :
           /\ Len(kw[i][2]) >= 2
           /\ kw[i][2][1][2] < kw[i][2][2][2]
           /\ res[o][1] = kw[i][1]
           /\ Len(res[o][2]) >= 2
           /\ res[o][2][1] = kw[i][2][2][1]
           /\ res[o][2][2] = kw[i][2][1][1]

\* the first category, in the iteration order of the mapping d, that lists
\* word w with w's highest similarity
FirstBest(d, w) ==
    LET I == {i \in DOMAIN d : <<w, BestSim(d, w)>> \in Range(d[i][2])}
    IN  d[CHOOSE i \in I : \A x \in I : i <= x][1]

\* C17: a word goes to the first category, in the iteration order of the input
\* mapping, among those that list it with its highest similarity; so a tie is
\* settled for the category that comes first.
C17_TieGoesToFirstCategory ==
    spc # "input" =>
        \A w \in CandWords(kw) :
            /\ InOutput(res, FirstBest(kw, w), w)
            /\ \A b \in Range(Categories) \ {FirstBest(kw, w)} : ~InOutput(res, b, w)

\* both categories list one word with the same similarity; the first keeps it
C17_Witness ==
    /\ spc = "sorted"
    /\ \E w \in Words, s \in SimLevels :
           /\ \A i \in DOMAIN kw : <<w, s>> \in Range(kw[i][2])
           /\ InOutput(res, kw[1][1], w)
           /\ ~InOutput(res, kw[2][1], w)

-----------------------------------------------------------------------------
(* get_word_list *)

\* w.lower().strip() on the seed strings of SeedTerms
Normalize(w) == IF w = "Landfill " THEN "landfill" ELSE w

\* [w.lower().strip() for w in word_list]
NormalizeList(l) == [i \in DOMAIN l |-> Normalize(l[i])]

\* 1 - model.wv.distances(w) at token t
Sim(w, t) == IF w = t THEN SelfSim ELSE pairSim[{w, t}]

\* the buggy variant: the seed loop stops at the first seed missing from the model
RECURSIVE FoundUntilMissing(_)
FoundUntilMissing(l) ==
    IF l = <<>> THEN <<>>
    ELSE IF l[1] \in vocab THEN <<l[1]>> \o FoundUntilMissing(Tail(l)) ELSE <<>>

\* the seed loop: the seeds that are in model.wv, in order; the others are skipped
RECURSIVE FoundSeeds(_)
FoundSeeds(l) ==
    IF l = <<>> THEN <<>>
    ELSE IF l[1] \in vocab THEN <<l[1]>> \o FoundSeeds(Tail(l)) ELSE FoundSeeds(Tail(l))

\* l_simi before stacking: one row of similarities per found seed
SimRows(found) == [i \in DOMAIN found |-> [t \in vocab |-> Sim(found[i], t)]]

\* the buggy variant: element-wise minimum
RowMin(rows) ==
    [t \in vocab |-> CHOOSE m \in {rows[i][t] : i \in DOMAIN rows} :
                         \A i \in DOMAIN rows : rows[i][t] >= m]

\* np.stack(l_simi, axis=1).max(axis=1): element-wise maximum over the seeds
RowMax(rows) ==
    [t \in vocab |-> CHOOSE m \in {rows[i][t] : i \in DOMAIN rows} :
                         \A i \in DOMAIN rows : rows[i][t] <= m]

\* all orderings of the token set T
Orderings(T) ==
    {q \in [1..Cardinality(T) -> T] : \A i, j \in DOMAIN q : i # j => q[i] # q[j]}

\* np.argpartition(score, -TOP_N)[-TOP_N:]: TOP_N different tokens, none of them
\* scoring less than a token left out; which of several equal tokens are taken,
\* and in which order they come, is left to the partition
ArgPartition(score) ==
    UNION {Orderings(T) : T \in {T \in SUBSET vocab :
               /\ Cardinality(T) = TOP_N
               /\ \A t \in T, u \in vocab \ T : score[u] <= score[t]}}

\* the buggy variant: no guard for a category without a found seed, np.stack of
\* an empty list raises
ExpandNoGuard(word_list) ==
    LET found == FoundSeeds(word_list)
        score == RowMax(SimRows(found))
    IN  IF found = <<>> \/ Cardinality(vocab) < TOP_N THEN {[list |-> <<>>, raised |-> TRUE]}
        ELSE {[list |-> [i \in DOMAIN q |-> <<q[i], score[q[i]]>>], raised |-> FALSE] :
                  q \in ArgPartition(score)}

\* the outcomes of one pass of the category loop for the seed list word_list:
\* the value left in keywords_list[k], and whether the pass raised
ExpandOutcomes(word_list) ==
    LET found == FoundSeeds(word_list)
        score == RowMax(SimRows(found))
    IN  IF found = <<>> THEN {[list |-> <<>>, raised |-> FALSE]}
        ELSE IF Cardinality(vocab) < TOP_N THEN {[list |-> <<>>, raised |-> TRUE]}
        ELSE {[list |-> [i \in DOMAIN q |-> <<q[i], score[q[i]]>>], raised |-> FALSE] :
                  q \in ArgPartition(score)}

\* the seed dicts of the model: every category of Categories with a bounded seed list
SeedLists ==
    {l \in UNION {[1..n -> SeedTerms] : n \in 0..MaxSeeds} :
        \A i, j \in DOMAIN l : i # j => l[i] # l[j]}

SeedDicts ==
    {[i \in DOMAIN Categories |-> <<Categories[i], f[i]>>] :
        f \in [DOMAIN Categories -> SeedLists]}

TokenPairs == {{a, b} : a, b \in Words} \ {{a} : a \in Words}

\* get_word_list up to the category loop: seed words and the model are loaded
StartRun(sd) ==
    /\ dpc' = "expand"
    /\ seeds' = [i \in DOMAIN sd |-> <<sd[i][1], NormalizeList(sd[i][2])>>]
    /\ ci' = 1
    /\ cand' = <<>>
    /\ out' = <<>>
    /\ runs' = runs + 1

\* one pass of the category loop
Expand ==
    /\ dpc = "expand"
    /\ ci <= Len(seeds)
    /\ \E o \in ExpandOutcomes(seeds[ci][2]) :
           /\ cand' = Append(cand, <<seeds[ci][1], o.list>>)
           /\ dpc' = IF o.raised THEN "crashed" ELSE "expand"
           /\ ci' = IF o.raised THEN ci ELSE ci + 1
    /\ UNCHANGED <<seeds, vocab, pairSim, out, files, runs, csv, csvRun, sortVars, preVars, restVars>>

\* keywords_list = sort_word_list(keywords_list)
Dedup ==
    /\ dpc = "expand"
    /\ ci > Len(seeds)
    /\ out' = sort_word_list(cand)
    /\ dpc' = "save"
    /\ UNCHANGED <<seeds, vocab, pairSim, ci, cand, files, runs, csv, csvRun, sortVars, preVars, restVars>>

\* the save loop: words/<k>.txt is (re)written for every key of keywords_list
Save ==
    /\ dpc = "save"
    /\ files' = [k \in DOMAIN files |-> IF DictHas(out, k) THEN File(DictGet(out, k)) ELSE files[k]]
    /\ dpc' = "done"
    /\ UNCHANGED <<seeds, vocab, pairSim, ci, cand, out, runs, csv, csvRun, sortVars, preVars, restVars>>

\* a later run of step 5, with another seed mapping
Rerun ==
    /\ dpc \in {"done", "crashed"}
    /\ runs < MaxRuns
    /\ \E sd \in SeedDicts : StartRun(sd)
    /\ UNCHANGED <<vocab, pairSim, files, csv, csvRun, sortVars, preVars, restVars>>

-----------------------------------------------------------------------------
(* combine_dictionaries *)

\* the rows of one category file: a row per non-blank line
FileRows(k) == [j \in DOMAIN files[k].lines |-> <<files[k].lines[j], k>>]

RECURSIVE AllRows(_)
AllRows(order) ==
    IF order = <<>> THEN <<>> ELSE FileRows(order[1]) \o AllRows(Tail(order))

\* glob finds the files in an order of its own; without files nothing is written
Combine ==
    /\ dpc \in {"done", "crashed"}
    /\ LET txt_files == {k \in DOMAIN files : files[k].exists}
       IN  /\ txt_files # {}
           /\ \E order \in Orderings(txt_files) : csv' = File(AllRows(order))
    /\ csvRun' = runs
    /\ UNCHANGED <<dpc, seeds, vocab, pairSim, ci, cand, out, files, runs, sortVars, preVars, restVars>>

-----------------------------------------------------------------------------
(* SpecDict: one run of step 5 in a fresh directory, for every bounded seed  *)
(* dict and model.  SpecRuns: repeated runs with changing seed dicts.       *)

SortIdle == spc = "off" /\ kw = <<>> /\ res = <<>> /\ kw2 = <<>> /\ res2 = <<>>

InitDict ==
    /\ SortIdle
    /\ PreIdle
    /\ RestIdle
    /\ vocab \in SUBSET Words \ {{}}
    /\ pairSim \in [TokenPairs -> ModelSims]
    /\ files = [k \in Range(Categories) |-> NoFile]
    /\ csv = NoFile
    /\ csvRun = 0
    /\ runs = 1
    /\ dpc = "expand"
    /\ ci = 1
    /\ cand = <<>>
    /\ out = <<>>
    /\ \E sd \in SeedDicts : seeds = [i \in DOMAIN sd |-> <<sd[i][1], NormalizeList(sd[i][2])>>]

NextDict == Expand \/ Dedup \/ Save \/ Combine

SpecDict == InitDict /\ [][NextDict]_vars

\* the model of the spec's scenario: carbon_footprint is not a token here, emission
\* stands next to landfill and far from recycling
RunsPairSim == [p \in TokenPairs |-> IF p = {"emission", "landfill"} THEN 8 ELSE 3]

InitRuns ==
    /\ SortIdle
    /\ PreIdle
    /\ RestIdle
    /\ vocab = Words
    /\ pairSim = RunsPairSim
    /\ files = [k \in Range(Categories) |-> NoFile]
    /\ csv = NoFile
    /\ csvRun = 0
    /\ runs = 1
    /\ dpc = "expand"
    /\ ci = 1
    /\ cand = <<>>
    /\ out = <<>>
    /\ \E sd \in SeedDicts : seeds = [i \in DOMAIN sd |-> <<sd[i][1], NormalizeList(sd[i][2])>>]

NextRuns == Expand \/ Dedup \/ Save \/ Combine \/ Rerun

SpecRuns == InitRuns /\ [][NextRuns]_vars

-----------------------------------------------------------------------------
(* Claims about get_word_list (SpecDict, SpecRuns) *)

CatNames == Range(Categories)

SeedsOf(k) == DictGet(seeds, k)

InVocabSeeds(k) == {w \in Range(SeedsOf(k)) : w \in vocab}

\* the highest similarity of token t to an in-vocabulary seed of category k
Score(k, t) ==
    LET S == {Sim(w, t) : w \in InVocabSeeds(k)}
    IN  CHOOSE m \in S : \A x \in S : x <= m

\* the pass of the category loop for k raised
Raised(k) == dpc = "crashed" /\ seeds[ci][1] = k

\* the pass of the category loop for k is over and did not raise
Expanded(k) == DictHas(cand, k) /\ ~Raised(k)

CandSet(k) == {DictGet(cand, k)[j][1] : j \in DOMAIN DictGet(cand, k)}

\* C4: the candidate list of an expanded category with an in-vocabulary seed has
\* TOP_N different tokens (so at most TOP_N), each paired with its maximum
\* similarity over the category's in-vocabulary seeds, and no token left out
\* scores strictly higher than a token taken.
C4_TopNByMaxSimilarity ==
    \A k \in CatNames :
        (Expanded(k) /\ InVocabSeeds(k) # {}) =>
            LET c == DictGet(cand, k)
            IN  /\ Len(c) <= TOP_N
                /\ Cardinality(CandSet(k)) = Len(c)
                /\ Len(c) = TOP_N
                /\ \A j \in DOMAIN c : c[j][1] \in vocab /\ c[j][2] = Score(k, c[j][1])
                /\ \A t \in CandSet(k), u \in vocab \ CandSet(k) : Score(k, u) <= Score(k, t)

C4_Witness ==
    /\ dpc = "done"
    /\ \E k \in CatNames :
           /\ Cardinality(InVocabSeeds(k)) = 1
           /\ \E u \in vocab \ CandSet(k) : \A t \in CandSet(k) : Score(k, u) < Score(k, t)
           /\ \E j \in DOMAIN DictGet(cand, k) : DictGet(cand, k)[j][2] < SelfSim

\* the seed list l without the seeds missing from the model
WithoutMissing(l) == SelectSeq(l, LAMBDA w : w \in vocab)

\* C5: a category with a seed missing from the vocabulary gets exactly an outcome
\* of the pass over its remaining seeds; a run is only ever aborted by the
\* partition of a vocabulary smaller than TOP_N, and a run that is not aborted
\* has passed over every category of the seed dict.
C5_MissingSeedSkipped ==
    /\ \A k \in CatNames :
           (DictHas(cand, k) /\ Range(SeedsOf(k)) \ vocab # {}) =>
               [list |-> DictGet(cand, k), raised |-> Raised(k)]
                   \in ExpandOutcomes(WithoutMissing(SeedsOf(k)))
    /\ dpc = "crashed" => Cardinality(vocab) < TOP_N
    /\ dpc \in {"save", "done"} =>
           /\ Len(cand) = Len(seeds)
           /\ \A i \in DOMAIN seeds : cand[i][1] = seeds[i][1]

C5_Witness ==
    /\ dpc = "done"
    /\ Len(seeds[1][2]) = 2
    /\ seeds[1][2][1] \notin vocab
    /\ seeds[1][2][2] \in vocab
    /\ Len(cand[1][2]) = TOP_N
    /\ Len(cand[2][2]) = TOP_N

\* the categories none of whose seeds is in the vocabulary
Skipped == {k \in CatNames : InVocabSeeds(k) = {}}

\* keywords_list without the entries of the categories in K
RECURSIVE DictWithout(_, _)
DictWithout(d, K) ==
    IF d = <<>> THEN <<>>
    ELSE IF d[1][1] \in K THEN DictWithout(Tail(d), K)
         ELSE <<d[1]>> \o DictWithout(Tail(d), K)

\* C6: a category without an in-vocabulary seed gets an empty candidate list, its
\* pass does not abort the run, it is no key of the output and gets no file, and
\* the output is the one sort_word_list gives for the other categories alone.
C6_CategorySkipped ==
    /\ \A k \in Skipped :
           /\ ~Raised(k)
           /\ DictHas(cand, k) => DictGet(cand, k) = <<>>
           /\ ~DictHas(out, k)
           /\ ~files[k].exists
    /\ dpc \in {"save", "done"} => out = sort_word_list(DictWithout(cand, Skipped))

C6_Witness ==
    /\ dpc = "done"
    /\ Skipped = {seeds[1][1]}
    /\ seeds[1][2] # <<>>
    /\ Len(out) = 1
    /\ files[seeds[2][1]].exists

\* the words category k keeps after deduplication
Survivors(k) == IF DictHas(out, k) THEN DictGet(out, k) ELSE <<>>

\* C7: after a run, every category with an in-vocabulary seed has a file, and the
\* file holds the words the category keeps after deduplication.
C7_FilePerExpandedCategory ==
    dpc = "done" =>
        \A k \in CatNames :
            InVocabSeeds(k) # {} => files[k].exists /\ files[k].lines = Survivors(k)

\* C8: after any sequence of runs the category files are exactly the output of
\* the most recent run, and a csv combined after it lists each word once, under
\* the category of that run.
C8_RegeneratedWholesale ==
    dpc = "done" =>
        /\ \A k \in CatNames :
               files[k] = IF DictHas(out, k) THEN File(DictGet(out, k)) ELSE NoFile
        /\ (csv.exists /\ csvRun = runs) =>
               /\ Range(csv.lines) =
                      UNION {{<<w, out[i][1]>> : w \in Range(out[i][2])} : i \in DOMAIN out}
               /\ \A i, j \in DOMAIN csv.lines :
                      i # j => csv.lines[i][1] # csv.lines[j][1]

\* C19: the pass of every category with an in-vocabulary seed ends without
\* raising and leaves min(TOP_N, size of the vocabulary) different candidates,
\* whatever the size of the vocabulary.
C19_ExpansionCompletes ==
    \A k \in CatNames :
        (DictHas(cand, k) /\ InVocabSeeds(k) # {}) =>
            /\ ~Raised(k)
            /\ Len(DictGet(cand, k)) =
                   IF Cardinality(vocab) < TOP_N THEN Cardinality(vocab) ELSE TOP_N
            /\ Cardinality(CandSet(k)) = Len(DictGet(cand, k))

\* no seed word is listed by two categories
SeedsDisjoint ==
    \A a, b \in CatNames : a # b => Range(SeedsOf(a)) \cap Range(SeedsOf(b)) = {}

\* C20: with disjoint seed lists and at most TOP_N in-vocabulary seeds in a
\* category (a token is strictly nearer to itself than to any other token),
\* every in-vocabulary seed of the category is among its candidates once its
\* pass is over, and after deduplication is in its output and in no other.
C20_SeedsStayInOwnCategory ==
    \A k \in CatNames :
        (DictHas(cand, k) /\ SeedsDisjoint /\ Cardinality(InVocabSeeds(k)) <= TOP_N) =>
            /\ InVocabSeeds(k) \subseteq CandSet(k)
            /\ dpc \in {"save", "done"} =>
                   \A w \in InVocabSeeds(k) :
                       /\ InOutput(out, k, w)
                       /\ \A b \in CatNames \ {k} : ~InOutput(out, b, w)

-----------------------------------------------------------------------------
(* run_preprocessing, process_chunk_wrapper, process_batch *)

\* A text is a sequence of characters, a token a sequence of characters too.
Null == <<"NaN">>                              \* an empty 'content' cell (None / NaN)
\* the contents of the csv of SpecPre: "a" and "Scope Aa\n as."
Contents == {<<"a">>, <<"S", "c", "o", "p", "e", " ", "A", "a", "\n", " ", "a", "s", ".">>}

Min(a, b) == IF a <= b THEN a ELSE b

\* df.dropna(subset=['content']): the rows with a content, each with its id
RECURSIVE DropNa(_, _)
DropNa(rows, i) ==
    IF i > Len(rows) THEN <<>>
    ELSE IF rows[i] = Null THEN DropNa(rows, i + 1)
         ELSE <<[id |-> i, content |-> rows[i]]>> \o DropNa(rows, i + 1)

Df == DropNa(csvRows, 1)

\* the variant without the chunk of the remainder
NumChunksFloor(n) == n \div CHUNKSIZE

\* (len(df) - 1) // CHUNKSIZE + 1, with Python's floor division
NumChunks(n) == (n - 1) \div CHUNKSIZE + 1

\* df.iloc[start_idx:end_idx]
ChunkDf(c) == SubSeq(Df, c * CHUNKSIZE + 1, Min((c + 1) * CHUNKSIZE, Len(Df)))

\* the texts of a chunk, each tagged with its place ix in the chunk (from 0)
Docs(c) == [j \in DOMAIN ChunkDf(c) |-> [ix |-> j - 1, text |-> ChunkDf(c)[j].content]]

DocIds(c) == [j \in DOMAIN ChunkDf(c) |-> ChunkDf(c)[j].id]

NWorkers(n) == Min(N_PROCESS, n \div BATCH_SIZE + 1)

SubBatchSize(n) == n \div NWorkers(n) + 1

\* the work items for workers i, i+1, ..: (docs[start:end], i) where start < end
RECURSIVE BuildItems(_, _)
BuildItems(docs, i) ==
    IF i >= NWorkers(Len(docs)) THEN <<>>
    ELSE LET start == i * SubBatchSize(Len(docs))
             end   == Min((i + 1) * SubBatchSize(Len(docs)), Len(docs))
         IN  IF start < end
             THEN <<[texts |-> SubSeq(docs, start + 1, end), worker_id |-> i]>>
                      \o BuildItems(docs, i + 1)
             ELSE BuildItems(docs, i + 1)

WorkItems(docs) == BuildItems(docs, 0)

IsSpace(ch) == ch \in {" ", "\n"}

\* t without its leading whitespace
RECURSIVE LStrip(_)
LStrip(t) == IF t # <<>> /\ IsSpace(t[1]) THEN LStrip(Tail(t)) ELSE t

RECURSIVE RStrip(_)
RStrip(t) == IF t # <<>> /\ IsSpace(t[Len(t)]) THEN RStrip(SubSeq(t, 1, Len(t) - 1)) ELSE t

\* text.strip()
Strip(t) == RStrip(LStrip(t))

\* re.sub(r"\s+", " ", text): every run of whitespace becomes one blank
RECURSIVE NormalizeWs(_)
NormalizeWs(t) ==
    IF t = <<>> THEN <<>>
    ELSE IF IsSpace(t[1]) THEN <<" ">> \o NormalizeWs(LStrip(t))
         ELSE <<t[1]>> \o NormalizeWs(Tail(t))

\* len(text.strip()) < 10 after the whitespace is normalized
TooShort(text) == Len(Strip(NormalizeWs(text))) < MIN_CHARS

\* the cleaning loop: "" for a missing or too short text, else the normalized text
CleanText(text) ==
    IF text = Null \/ TooShort(text) THEN <<>> ELSE NormalizeWs(text)

\* the texts of the tokens of the spaCy tokenizer: words between whitespace, a
\* sentence end is a token of its own; cur is the word being read
RECURSIVE TokensFrom(_, _)
TokensFrom(t, cur) ==
    LET flush == IF cur = <<>> THEN <<>> ELSE <<cur>>
    IN  IF t = <<>> THEN flush
        ELSE IF IsSpace(t[1]) THEN flush \o TokensFrom(Tail(t), <<>>)
        ELSE IF t[1] = "." THEN flush \o << <<".">> >> \o TokensFrom(Tail(t), <<>>)
        ELSE TokensFrom(Tail(t), Append(cur, t[1]))

\* str.lower() on the letters of the model
Lower(t) ==
    [i \in DOMAIN t |-> IF t[i] = "A" THEN "a" ELSE IF t[i] = "S" THEN "s" ELSE t[i]]

\* the entity recognizer of the pipeline: a capitalized word is an entity
EntTypeOf(text) == IF text[1] \in {"A", "S"} THEN <<"O", "R", "G">> ELSE <<>>

\* the lemmatizer of the pipeline: a plural s is dropped
LemmaOf(text) ==
    IF Len(text) > 1 /\ text[Len(text)] = "s" THEN SubSeq(text, 1, Len(text) - 1) ELSE text

\* token.is_punct: every character of the token is punctuation
IsPunct(text) == \A i \in DOMAIN text : text[i] \in {".", "_", "-"}

\* a spaCy token with the attributes process_batch reads
Token(text) ==
    [text |-> text, is_punct |-> IsPunct(text),
     ent_type_ |-> IF IsPunct(text) \/ IsSpace(text[1]) THEN <<>> ELSE EntTypeOf(text),
     lemma_ |-> LemmaOf(text)]

\* the tokens of a cleaned text; a blank at its start is a token of its own
DocTokens(cleaned) ==
    LET texts == (IF cleaned # <<>> /\ IsSpace(cleaned[1]) THEN << <<" ">> >> ELSE <<>>)
                     \o TokensFrom(cleaned, <<>>)
    IN  [i \in DOMAIN texts |-> Token(texts[i])]

\* doc.sents of the sentencizer: after a sentence end the next token that is
\* not punctuation starts a sentence; cur is the sentence being read and
\* seen_period says whether a sentence end was read in it
RECURSIVE SentsFrom(_, _, _)
SentsFrom(toks, cur, seen_period) ==
    IF toks = <<>> THEN (IF cur = <<>> THEN <<>> ELSE <<cur>>)
    ELSE IF seen_period /\ ~toks[1].is_punct
         THEN <<cur>> \o SentsFrom(Tail(toks), <<toks[1]>>, FALSE)
         ELSE SentsFrom(Tail(toks), Append(cur, toks[1]),
                        seen_period \/ toks[1].text = <<".">>)

DocSents(cleaned) == SentsFrom(DocTokens(cleaned), <<>>, FALSE)

\* self.set_not_replace
set_not_replace ==
    { <<"s", "c", "o", "p", "e">>,
      <<"s", "c", "o", "p", "e", "_", "1">>,
      <<"s", "c", "o", "p", "e", "_", "2">>,
      <<"s", "c", "o", "p", "e", "_", "3">> }

\* temp.replace('_-_', '-'): from the left, without overlap
RECURSIVE ReplaceDash(_)
ReplaceDash(t) ==
    IF t = <<>> THEN <<>>
    ELSE IF Len(t) >= 3 /\ SubSeq(t, 1, 3) = <<"_", "-", "_">>
         THEN <<"-">> \o ReplaceDash(SubSeq(t, 4, Len(t)))
         ELSE <<t[1]>> \o ReplaceDash(Tail(t))

\* re.sub(r"_+", '_', temp): every run of underscores becomes one
RECURSIVE SqueezeUnderscores(_)
SqueezeUnderscores(t) ==
    IF t = <<>> THEN <<>>
    ELSE IF t[1] = "_" /\ Len(t) >= 2 /\ t[2] = "_" THEN SqueezeUnderscores(Tail(t))
         ELSE <<t[1]>> \o SqueezeUnderscores(Tail(t))

\* the word appended for a token: its cleaned lemma, or the entity placeholder
WordOf(token) ==
    IF token.ent_type_ = <<>> \/ Lower(Strip(token.lemma_)) \in set_not_replace
    THEN SqueezeUnderscores(ReplaceDash(Lower(Strip(token.lemma_))))
    ELSE <<"[", "N", "E", "R", ":">> \o token.ent_type_ \o <<"]">>

\* words: a word for every token of the sentence that is neither punctuation
\* nor whitespace
SentWords(sent) ==
    LET kept == SelectSeq(sent, LAMBDA token : ~(token.is_punct \/ Strip(token.text) = <<>>))
    IN  [i \in DOMAIN kept |-> WordOf(kept[i])]

\* not sent.text.strip(): the sentence has no token but whitespace
SentBlank(sent) == \A i \in DOMAIN sent : Strip(sent[i].text) = <<>>

\* the variant without the test of line 183: a sentence without words is kept
SentenceListsUnguarded(sents) ==
    LET read == SelectSeq(sents, LAMBDA sent : ~SentBlank(sent))
    IN  [i \in DOMAIN read |-> SentWords(read[i])]

\* sentences: the word lists of the sentences with a text, 'if words' keeps the
\* non-empty ones
SentenceLists(sents) ==
    LET read == SelectSeq(sents, LAMBDA sent : ~SentBlank(sent))
    IN  SelectSeq([i \in DOMAIN read |-> SentWords(read[i])], LAMBDA words : words # <<>>)

\* the result of process_batch for one text when nlp.pipe does not raise
Sentences(text) ==
    IF CleanText(text) = <<>> THEN <<>> ELSE SentenceLists(DocSents(CleanText(text)))

\* the variant whose except branch returns an empty list for the whole batch
process_batch_drops_batch(batch, raises) ==
    IF raises THEN <<>>
    ELSE [j \in DOMAIN batch |-> [ix |-> batch[j].ix, sents |-> Sentences(batch[j].text)]]

\* process_batch: a sentence list per text; empty lists for all when nlp.pipe raises
process_batch(batch, raises) ==
    [j \in DOMAIN batch |->
        [ix |-> batch[j].ix,
         sents |-> IF raises THEN <<>> ELSE Sentences(batch[j].text)]]

\* process_chunk_wrapper: the batches texts[i:i+BATCH_SIZE], one after the other;
\* F holds the start positions i of the batches whose nlp.pipe raises
RECURSIVE WrapperFrom(_, _, _)
WrapperFrom(texts, i, F) ==
    IF i >= Len(texts) THEN <<>>
    ELSE process_batch(SubSeq(texts, i + 1, Min(i + BATCH_SIZE, Len(texts))), i \in F)
             \o WrapperFrom(texts, i + BATCH_SIZE, F)

process_chunk_wrapper(texts, F) == WrapperFrom(texts, 0, F)

BatchStarts(texts) == {i \in 0..Len(texts) - 1 : i % BATCH_SIZE = 0}

Pending == [done |-> FALSE, list |-> <<>>, raised |-> {}]

\* the buggy variant: results taken as the workers finish (imap_unordered)
FlattenAsFinished(rs) ==
    LET RECURSIVE Go(_)
        Go(o) == IF o = <<>> THEN <<>> ELSE rs[o[1]].list \o Go(Tail(o))
    IN  Go(finished)

\* processed_docs: the results of pool.imap, in the order of the work items
RECURSIVE Flatten(_)
Flatten(rs) == IF rs = <<>> THEN <<>> ELSE rs[1].list \o Flatten(Tail(rs))

ChunkIdxs == 0..(NumChunks(MaxDocs) - 1)

\* an artifact no run of this program writes
Sentinel == File(<<[doc_id |-> 0, processed_docs |-> [ix |-> 0, sents |-> << <<<<"a">>, <<"a">>>> >>]]>>)

\* the buggy variant: no test for the artifact, every chunk is processed
ChunkExistsNever(c) == FALSE

\* os.path.exists(processed_df_path)
ChunkExists(c) == disk[c].exists

\* the csv files of the model: unreadable, or readable with these columns
CsvHeads ==
    {NoHead} \cup {[readable |-> TRUE, columns |-> c] :
                      c \in {{"id", "content"}, {"identifier", "content"}}}

\* pd.read_csv and the test of the columns: the run returns when the csv cannot
\* be loaded or lacks 'id' or 'content'; else the chunk loop starts
LoadCsv ==
    /\ ppc = "load"
    /\ ppc' = IF csvHead.readable /\ "id" \in csvHead.columns /\ "content" \in csvHead.columns
              THEN "loop" ELSE "returned"
    /\ UNCHANGED <<csvHead, csvRows, disk, chunk_idx, work_items, results, finished, started,
                   restarts, stops, sortVars, dictVars, restVars>>

\* the chunk's artifact exists: continue with the next chunk
SkipChunk ==
    /\ ppc = "loop"
    /\ chunk_idx < NumChunks(Len(Df))
    /\ ChunkExists(chunk_idx)
    /\ chunk_idx' = chunk_idx + 1
    /\ UNCHANGED <<ppc, csvHead, csvRows, disk, work_items, results, finished, started, restarts, stops,
                 sortVars, dictVars, restVars>>

\* the chunk is split into work items and the pool is started
StartPool ==
    /\ ppc = "loop"
    /\ chunk_idx < NumChunks(Len(Df))
    /\ ~ChunkExists(chunk_idx)
    /\ work_items' = WorkItems(Docs(chunk_idx))
    /\ results' = [i \in DOMAIN work_items' |-> Pending]
    /\ finished' = <<>>
    /\ started' = [started EXCEPT ![chunk_idx] = @ + 1]
    /\ ppc' = "pool"
    /\ UNCHANGED <<csvHead, csvRows, disk, chunk_idx, restarts, stops, sortVars, dictVars, restVars>>

\* the worker of work item i returns, whatever the other workers are doing;
\* raised records the batches whose nlp.pipe raised
WorkerDone(i) ==
    /\ ppc = "pool"
    /\ ~results[i].done
    /\ \E F \in SUBSET BatchStarts(work_items[i].texts) :
           results' = [results EXCEPT
                          ![i] = [done |-> TRUE,
                                  list |-> process_chunk_wrapper(work_items[i].texts, F),
                                  raised |-> F]]
    /\ finished' = Append(finished, i)
    /\ UNCHANGED <<ppc, csvHead, csvRows, disk, chunk_idx, work_items, started, restarts, stops,
                 sortVars, dictVars, restVars>>

\* all workers are done: the results are flattened and the artifact is written;
\* pd.DataFrame raises when the two columns differ in length
SaveChunk ==
    /\ ppc = "pool"
    /\ \A i \in DOMAIN results : results[i].done
    /\ LET processed_docs == Flatten(results)
           doc_ids        == DocIds(chunk_idx)
       IN  IF Len(processed_docs) = Len(doc_ids)
           THEN /\ disk' = [disk EXCEPT ![chunk_idx] =
                               File([j \in DOMAIN doc_ids |->
                                        [doc_id |-> doc_ids[j],
                                         processed_docs |-> processed_docs[j]]])]
                /\ chunk_idx' = chunk_idx + 1
                /\ ppc' = "loop"
           ELSE /\ ppc' = "crashed"
                /\ UNCHANGED <<disk, chunk_idx>>
    /\ UNCHANGED <<csvHead, csvRows, work_items, results, finished, started, restarts, stops,
                 sortVars, dictVars, restVars>>

\* the chunk loop is over
Finish ==
    /\ ppc = "loop"
    /\ chunk_idx >= NumChunks(Len(Df))
    /\ ppc' = "done"
    /\ UNCHANGED <<csvHead, csvRows, disk, chunk_idx, work_items, results, finished, started, restarts, stops,
                 sortVars, dictVars, restVars>>

\* the run is stopped between two chunks, or is over, and is started again
Restart ==
    /\ ppc \in {"loop", "done", "returned"}
    /\ restarts < MaxRestarts
    /\ restarts' = restarts + 1
    /\ stops' = Append(stops, [pc |-> ppc, at |-> chunk_idx])
    /\ chunk_idx' = 0
    /\ ppc' = "load"
    /\ UNCHANGED <<csvHead, csvRows, disk, work_items, results, finished, started, sortVars, dictVars, restVars>>

InitPre ==
    /\ SortIdle
    /\ DictIdle
    /\ RestIdle
    /\ csvRows \in UNION {[1..n -> Contents \cup {Null}] : n \in 0..MaxDocs}
    /\ csvHead \in CsvHeads
    /\ disk \in [ChunkIdxs -> {NoFile, Sentinel}]
    /\ ppc = "load"
    /\ chunk_idx = 0
    /\ work_items = <<>>
    /\ results = <<>>
    /\ finished = <<>>
    /\ started = [c \in ChunkIdxs |-> 0]
    /\ restarts = 0
    /\ stops = <<>>

NextPre ==
    \/ LoadCsv
    \/ SkipChunk
    \/ StartPool
    \/ \E i \in DOMAIN results : WorkerDone(i)
    \/ SaveChunk
    \/ Finish
    \/ Restart

SpecPre == InitPre /\ [][NextPre]_vars

-----------------------------------------------------------------------------
(* Claims about run_preprocessing (SpecPre) *)

\* the artifact of chunk c was written by a run of the model
Written(c) == disk[c].exists /\ disk[c] # Sentinel

\* C9: a step never changes an artifact that exists nor starts a pool for its
\* chunk; an artifact only appears for a chunk whose pool was started; and when
\* the loop is over every chunk of the input has its artifact.
C9_ExistingChunkSkipped ==
    /\ [][\A c \in ChunkIdxs :
             /\ disk[c].exists => disk'[c] = disk[c] /\ started'[c] = started[c]
             /\ (~disk[c].exists /\ disk'[c].exists) =>
                    /\ started[c] >= 1
                    /\ c = chunk_idx
                    /\ Len(disk'[c].lines) = Len(ChunkDf(c))]_vars
    /\ [](ppc = "done" =>
             \A c \in ChunkIdxs : c < NumChunks(Len(Df)) => disk[c].exists)

C9_Witness ==
    /\ ppc = "done"
    /\ NumChunks(Len(Df)) = 2
    /\ disk[0] = Sentinel
    /\ started[0] = 0
    /\ Written(1)
    /\ started[1] = 1

\* the places in the chunk of the texts of work item i
ItemIxs(i) == {work_items[i].texts[j].ix : j \in DOMAIN work_items[i].texts}

\* C10: the work items of a pool hold disjoint slices of the chunk's documents
\* that together are all of them, each text once; and every artifact written has
\* one row per document of its chunk, in the chunk's order, the row of a document
\* holding its id and the result computed from its own text (the text's
\* sentences, or none when its batch raised), whatever order the workers
\* finished in.
C10_SubBatchesPartitionAndAlign ==
    /\ ppc # "crashed"
    /\ ppc = "pool" =>
           /\ \A i, j \in DOMAIN work_items : i # j => ItemIxs(i) \cap ItemIxs(j) = {}
           /\ UNION {ItemIxs(i) : i \in DOMAIN work_items} = 0..(Len(Docs(chunk_idx)) - 1)
           /\ \A i \in DOMAIN work_items :
                  /\ work_items[i].texts # <<>>
                  /\ Cardinality(ItemIxs(i)) = Len(work_items[i].texts)
                  /\ \A j \in DOMAIN work_items[i].texts :
                         work_items[i].texts[j] = Docs(chunk_idx)[work_items[i].texts[j].ix + 1]
    /\ \A c \in ChunkIdxs :
           Written(c) =>
               /\ Len(disk[c].lines) = Len(ChunkDf(c))
               /\ \A j \in DOMAIN disk[c].lines :
                      /\ disk[c].lines[j].doc_id = ChunkDf(c)[j].id
                      /\ disk[c].lines[j].processed_docs.ix = j - 1
                      /\ disk[c].lines[j].processed_docs.sents
                             \in {<<>>, Sentences(ChunkDf(c)[j].content)}

C10_Witness ==
    /\ ppc = "done"
    /\ finished = <<2, 1>>
    /\ Written(0)
    /\ Len(disk[0].lines) = CHUNKSIZE
    /\ \E j \in DOMAIN disk[0].lines : disk[0].lines[j].processed_docs.sents # <<>>
    /\ \E j \in DOMAIN disk[0].lines : disk[0].lines[j].doc_id # j

\* the place in texts (from 0) where the batch of the j-th text starts
BatchStartOf(j) == ((j - 1) \div BATCH_SIZE) * BATCH_SIZE

\* the batch of the j-th document of a chunk of n documents: its work item and
\* the start of its batch in that work item
BatchOfDoc(n, j) ==
    <<(j - 1) \div SubBatchSize(n), BatchStartOf(((j - 1) % SubBatchSize(n)) + 1)>>

\* f is an artifact that one uninterrupted pass over chunk c writes: a row per
\* document of the chunk, in order, with the document's id and either the
\* sentences of its text or, for all documents of a batch together, none
UninterruptedArtifact(c, f) ==
    LET df == ChunkDf(c)
        n  == Len(df)
        lost(j) == f.lines[j].processed_docs.sents # Sentences(df[j].content)
    IN  /\ f.exists
        /\ Len(f.lines) = n
        /\ \A j \in 1..n :
               /\ f.lines[j].doc_id = df[j].id
               /\ f.lines[j].processed_docs.ix = j - 1
               /\ lost(j) => f.lines[j].processed_docs.sents = <<>>
               /\ \A l \in 1..n :
                      (lost(j) /\ BatchOfDoc(n, l) = BatchOfDoc(n, j)) =>
                          f.lines[l].processed_docs.sents = <<>>

\* the rows <<chunk, row>> of the artifacts that hold document id
RowsOf(id) ==
    UNION {{<<c, j>> : j \in {j \in DOMAIN disk[c].lines : disk[c].lines[j].doc_id = id}} :
              c \in {c \in ChunkIdxs : Written(c)}}

\* C18: however often the run was stopped between chunks and started again, no
\* chunk has had more than one pool; and when the loop is over, every chunk of
\* the input without an artifact from before the run has an artifact that one
\* uninterrupted pass over the chunk writes, nothing else was written, and in a
\* directory without earlier artifacts every document with a content is in
\* exactly one row of exactly one artifact.
C18_ResumeEqualsUninterrupted ==
    /\ \A c \in ChunkIdxs : started[c] <= 1
    /\ ppc = "done" =>
           /\ \A c \in ChunkIdxs :
                  IF c < NumChunks(Len(Df)) /\ disk[c] # Sentinel
                  THEN started[c] = 1 /\ UninterruptedArtifact(c, disk[c])
                  ELSE started[c] = 0 /\ disk[c] \in {NoFile, Sentinel}
           /\ (\A c \in ChunkIdxs : disk[c] # Sentinel) =>
                  \A i \in DOMAIN csvRows :
                      csvRows[i] # Null => Cardinality(RowsOf(i)) = 1

\* the run was stopped once, after the first of two chunks, and then completed
C18_Witness ==
    /\ ppc = "done"
    /\ stops = <<[pc |-> "loop", at |-> 1]>>
    /\ NumChunks(Len(Df)) = 2
    /\ Written(0) /\ Written(1)
    /\ started[0] = 1 /\ started[1] = 1

\* C11: whatever batches raise, a worker returns one entry per text of its work
\* item, in the order of the texts; the entries of a batch that raised are all
\* empty, and the entry of a text of any other batch is what its own text gives.
C11_RaisedBatchEmptyOthersKept ==
    \A i \in DOMAIN results :
        results[i].done =>
            LET texts == work_items[i].texts
                list  == results[i].list
            IN  /\ Len(list) = Len(texts)
                /\ \A j \in DOMAIN texts :
                       /\ list[j].ix = texts[j].ix
                       /\ list[j].sents =
                              IF BatchStartOf(j) \in results[i].raised
                              THEN <<>>
                              ELSE Sentences(texts[j].text)

\* a worker had a batch raise on a text with sentences, and kept the sentences
\* of a text of another batch
C11_Witness ==
    /\ ppc = "pool"
    /\ \E i \in DOMAIN results :
           /\ results[i].done
           /\ \E j, l \in DOMAIN work_items[i].texts :
                  /\ BatchStartOf(j) \in results[i].raised
                  /\ Sentences(work_items[i].texts[j].text) # <<>>
                  /\ results[i].list[j].sents = <<>>
                  /\ BatchStartOf(l) \notin results[i].raised
                  /\ results[i].list[l].sents # <<>>

-----------------------------------------------------------------------------
(* SpecTok: process_batch on every bounded batch of texts *)

\* a text with the strings the lemma rewrites look for: "a_-___A"
RewrittenText == <<"a", "_", "-", "_", "_", "_", "A">>

TokTexts == UNION {[1..n -> Chars] : n \in 0..MaxTextLen} \cup {Null, RewrittenText}

\* the texts of a batch, each tagged with its place in the batch (from 0)
Tagged(batch) == [j \in DOMAIN batch |-> [ix |-> j - 1, text |-> batch[j]]]

InitTok ==
    /\ SortIdle
    /\ DictIdle
    /\ PreIdle
    /\ DumpIdle
    /\ PhrIdle
    /\ tpc = "input"
    /\ tbatch \in {<<t>> : t \in TokTexts}
                     \cup {<<t, u>> : t \in TokTexts, u \in Contents \cup {Null}}
    /\ traises = FALSE
    /\ tres = <<>>

\* one call of process_batch; nlp.pipe may raise
Tokenize ==
    /\ tpc = "input"
    /\ \E r \in BOOLEAN :
           /\ traises' = r
           /\ tres' = process_batch(Tagged(tbatch), r)
    /\ tpc' = "returned"
    /\ UNCHANGED <<tbatch, sortVars, dictVars, preVars, dumpVars, phrVars>>

NextTok == Tokenize

SpecTok == InitTok /\ [][NextTok]_vars

\* the length of text.strip() once every whitespace run of t is one blank:
\* the characters that are no whitespace, and the whitespace runs between them
StrippedLen(t) ==
    LET P == {i \in DOMAIN t : ~IsSpace(t[i])}
    IN  Cardinality(P)
            + Cardinality({i \in DOMAIN t : /\ IsSpace(t[i])
                                            /\ \E a \in P : a < i
                                            /\ i + 1 \in P})

\* C12: process_batch returns one list per text; every sentence in it is a
\* non-empty list of tokens; and a text that is missing, blank, or
\* shorter than MIN_CHARS once stripped gets the empty list.
C12_SentencesNonEmptyShortTextsNone ==
    tpc = "returned" =>
        /\ Len(tres) = Len(tbatch)
        /\ \A j \in DOMAIN tres :
               /\ \A n \in DOMAIN tres[j].sents : tres[j].sents[n] # <<>>
               /\ (tbatch[j] = Null \/ StrippedLen(tbatch[j]) < MIN_CHARS)
                      => tres[j].sents = <<>>

\* a text of a word between whitespace gets no sentence, the text after it does
C12_Witness ==
    /\ tpc = "returned"
    /\ ~traises
    /\ Len(tbatch) = 2
    /\ tbatch[1] # Null
    /\ \E i, l \in DOMAIN tbatch[1] : IsSpace(tbatch[1][i]) /\ ~IsSpace(tbatch[1][l])
    /\ tres[1].sents = <<>>
    /\ Len(tres[2].sents) >= 1


-----------------------------------------------------------------------------
(* run_dump_all_sentences *)

\* ' '.join(sentence): the characters of the tokens with a blank between two tokens
RECURSIVE JoinSpaces(_)
JoinSpaces(sent) ==
    IF sent = <<>> THEN <<>>
    ELSE IF Len(sent) = 1 THEN sent[1]
         ELSE sent[1] \o <<" ">> \o JoinSpaces(Tail(sent))

\* the variant without the test of line 90: an empty sentence gets its (empty) line
RECURSIVE DocLinesNoSkip(_)
DocLinesNoSkip(doc) ==
    IF doc = <<>> THEN <<>>
    ELSE JoinSpaces(doc[1]) \o <<"\n">> \o DocLinesNoSkip(Tail(doc))

\* the characters f.write gets for one document: ' '.join(sentence) + '\n' for
\* every sentence that is not empty
RECURSIVE DocLines(_)
DocLines(doc) ==
    IF doc = <<>> THEN <<>>
    ELSE (IF Len(doc[1]) = 0 THEN <<>> ELSE JoinSpaces(doc[1]) \o <<"\n">>)
             \o DocLines(Tail(doc))

\* the characters written for the rows of one artifact
RECURSIVE DumpLines(_)
DumpLines(rows) ==
    IF rows = <<>> THEN <<>>
    ELSE DocLines(rows[1].processed_docs.sents) \o DumpLines(Tail(rows))

\* the decimal digits of a chunk index, as f'{chunk_idx}' writes them
RECURSIVE Digits(_)
Digits(n) == IF n < 10 THEN <<n>> ELSE Digits(n \div 10) \o <<n % 10>>

\* the code points of the path of an artifact from the chunk index to the dot
\* of '.feather'; what is before and after is the same in every path
FileName(c) == [i \in DOMAIN Digits(c) |-> 48 + Digits(c)[i]] \o <<46>>

\* a < b for two strings: at the first place they differ a has the smaller
\* code point, or a ends there
RECURSIVE StrLess(_, _)
StrLess(a, b) ==
    IF b = <<>> THEN FALSE
    ELSE IF a = <<>> THEN TRUE
    ELSE IF a[1] # b[1] THEN a[1] < b[1]
    ELSE StrLess(Tail(a), Tail(b))

\* sorted(...) of the paths of the artifacts cs: the smallest path first
RECURSIVE FilesFrom(_)
FilesFrom(cs) ==
    IF cs = {} THEN <<>>
    ELSE LET first == CHOOSE c \in cs :
                          \A d \in cs \ {c} : StrLess(FileName(c), FileName(d))
         IN  <<first>> \o FilesFrom(cs \ {first})

\* sorted(glob('data/processed_df/*.feather')): the artifacts that exist, in the
\* order of their paths as strings
SortedFiles == FilesFrom({c \in DOMAIN disk : disk[c].exists})

\* the variant that opens all.txt for appending
OpenAppend(f) == IF f.exists THEN f ELSE File(<<>>)

\* open(out_file, 'w'): the file is created or truncated
OpenTruncate(f) == File(<<>>)

\* the characters of one complete run over the files fs
RECURSIVE CompleteRunLines(_)
CompleteRunLines(fs) ==
    IF fs = <<>> THEN <<>> ELSE DumpLines(disk[fs[1]].lines) \o CompleteRunLines(Tail(fs))

\* what a run finds as all.txt, compared with the output of a complete run:
\* no file, the complete output, nothing, a part of it that ends inside a line
\* or at the end of a line, or something else
OutKind(f) ==
    LET full == CompleteRunLines(SortedFiles)
        n    == Len(f.lines)
    IN  IF ~f.exists THEN "absent"
        ELSE IF f.lines = full THEN "complete"
        ELSE IF n = 0 THEN "empty"
        ELSE IF n < Len(full) /\ f.lines = SubSeq(full, 1, n)
             THEN (IF f.lines[n] = "\n" THEN "partial" ELSE "torn")
        ELSE "stale"

\* the run starts: the artifacts are listed and all.txt is opened
DumpOpen ==
    /\ upc \in {"idle", "done", "failed"}
    /\ dumpRuns < MaxDumpRuns
    /\ dumpRuns' = dumpRuns + 1
    /\ process_files' = SortedFiles
    /\ prev' = OutKind(outfile)
    /\ outfile' = OpenTruncate(outfile)
    /\ pending' = <<>>
    /\ fpos' = 1
    /\ dpos' = 1
    /\ total_docs' = 0
    /\ upc' = "writing"
    /\ UNCHANGED <<sortVars, dictVars, preVars, tokVars, phrVars>>

\* one pass of the document loop of the file at fpos (the file is read before
\* its first document, total_docs is counted after its last): the lines of the
\* document are written to f; while they are written the buffer of f may be
\* written out, whole or in part, so that all.txt holds the characters written
\* so far up to some place
DumpDoc ==
    /\ upc = "writing"
    /\ fpos <= Len(process_files)
    /\ LET rows    == disk[process_files[fpos]].lines
           written == IF dpos <= Len(rows)
                      THEN DocLines(rows[dpos].processed_docs.sents) ELSE <<>>
           buf     == pending \o written
       IN  /\ \E n \in 0..(IF written = <<>> THEN 0 ELSE Len(buf)) :
                  /\ outfile' = File(outfile.lines \o SubSeq(buf, 1, n))
                  /\ pending' = SubSeq(buf, n + 1, Len(buf))
           /\ IF dpos >= Len(rows)
              THEN /\ total_docs' = total_docs + Len(rows)
                   /\ fpos' = fpos + 1
                   /\ dpos' = 1
              ELSE /\ dpos' = dpos + 1
                   /\ UNCHANGED <<total_docs, fpos>>
    /\ UNCHANGED <<upc, process_files, dumpRuns, prev, sortVars, dictVars, preVars, tokVars, phrVars>>

\* the with block ends: f is flushed and closed; the statistics divide by total_docs
DumpClose ==
    /\ upc = "writing"
    /\ fpos > Len(process_files)
    /\ outfile' = File(outfile.lines \o pending)
    /\ pending' = <<>>
    /\ upc' = IF total_docs = 0 THEN "failed" ELSE "done"
    /\ UNCHANGED <<process_files, fpos, dpos, total_docs, dumpRuns, prev,
                   sortVars, dictVars, preVars, tokVars, phrVars>>

\* the process is killed while it writes: what is in the buffer is lost
DumpKill ==
    /\ upc = "writing"
    /\ dumpRuns < MaxDumpRuns
    /\ pending' = <<>>
    /\ upc' = "idle"
    /\ UNCHANGED <<outfile, process_files, fpos, dpos, total_docs, dumpRuns, prev,
                   sortVars, dictVars, preVars, tokVars, phrVars>>

\* the processed_docs cells of the artifacts of SpecDump: no sentence; an empty
\* sentence, then "a b" and "b"
DumpDocs ==
    { <<>>,
      << <<>>, << <<"a">>, <<"b">> >>, << <<"b">> >> >> }

DumpArtifacts ==
    {NoFile} \cup
    {File([j \in DOMAIN d |-> [doc_id |-> j, processed_docs |-> [ix |-> j - 1, sents |-> d[j]]]]) :
        d \in UNION {[1..n -> DumpDocs] : n \in 1..MaxDumpDocs}}

\* the chunk indexes of the artifacts of SpecDump: as numbers 2 < 10, as paths
\* '10.feather' < '2.feather'
DumpIdxs == {2, 10}

\* a file left in all_sentences/ by something else
StaleOut == File(<<"A", "\n">>)

InitDump ==
    /\ SortIdle
    /\ DictIdle
    /\ TokIdle
    /\ PhrIdle
    /\ ppc = "off" /\ csvHead = NoHead /\ csvRows = <<>> /\ chunk_idx = 0 /\ work_items = <<>>
    /\ results = <<>> /\ finished = <<>> /\ started = <<>> /\ restarts = 0 /\ stops = <<>>
    /\ disk \in [DumpIdxs -> DumpArtifacts]
    /\ upc = "idle"
    /\ outfile \in {NoFile, StaleOut}
    /\ process_files = <<>>
    /\ fpos = 0
    /\ dpos = 0
    /\ pending = <<>>
    /\ total_docs = 0
    /\ dumpRuns = 0
    /\ prev = "absent"

NextDump == DumpOpen \/ DumpDoc \/ DumpClose \/ DumpKill

SpecDump == InitDump /\ [][NextDump]_vars


-----------------------------------------------------------------------------
(* Claims about run_dump_all_sentences (SpecDump) *)

\* the places <<file, row, sentence>> of the non-empty sentences of the artifacts
NonEmptyAt ==
    UNION {UNION {{<<c, j, n>> : n \in {n \in DOMAIN disk[c].lines[j].processed_docs.sents :
                                           disk[c].lines[j].processed_docs.sents[n] # <<>>}} :
                     j \in DOMAIN disk[c].lines} :
              c \in {c \in DOMAIN disk : disk[c].exists}}

SentAt(t) == disk[t[1]].lines[t[2]].processed_docs.sents[t[3]]

\* the place of artifact c in the list the run made
FilePos(c) == CHOOSE i \in DOMAIN process_files : process_files[i] = c

\* place u comes before place t: earlier file of the list, or earlier row, or
\* earlier sentence
Before(u, t) ==
    \/ FilePos(u[1]) < FilePos(t[1])
    \/ u[1] = t[1] /\ u[2] < t[2]
    \/ u[1] = t[1] /\ u[2] = t[2] /\ u[3] < t[3]

\* line.split(' '): the pieces of a line between its blanks
RECURSIVE SplitFrom(_, _)
SplitFrom(line, cur) ==
    IF line = <<>> THEN <<cur>>
    ELSE IF line[1] = " " THEN <<cur>> \o SplitFrom(Tail(line), <<>>)
         ELSE SplitFrom(Tail(line), Append(cur, line[1]))

\* the lines of a text: the characters before every line end; cur is the line
\* being read, and what follows the last line end is a line without an end
RECURSIVE LinesFrom(_, _)
LinesFrom(data, cur) ==
    IF data = <<>> THEN (IF cur = <<>> THEN <<>> ELSE <<cur>>)
    ELSE IF data[1] = "\n" THEN <<cur>> \o LinesFrom(Tail(data), <<>>)
         ELSE LinesFrom(Tail(data), Append(cur, data[1]))

\* C13: when a run has closed all.txt, every line of the file has its line end,
\* the file has as many lines as the artifacts have non-empty sentences, and the
\* k-th line is the k-th non-empty sentence (by file, row and place in the
\* row): split at its blanks it gives the tokens of the sentence, in order.
C13_OneLinePerNonEmptySentence ==
    upc \in {"done", "failed"} =>
        /\ outfile.exists
        /\ outfile.lines # <<>> => outfile.lines[Len(outfile.lines)] = "\n"
        /\ Len(LinesFrom(outfile.lines, <<>>)) = Cardinality(NonEmptyAt)
        /\ \A t \in NonEmptyAt :
               LET line == LinesFrom(outfile.lines, <<>>)
                               [Cardinality({u \in NonEmptyAt : Before(u, t)}) + 1]
               IN  SplitFrom(line, <<>>) = SentAt(t)

\* two artifacts, with a document without sentences and a document with an
\* empty sentence before others, were dumped, 10.feather before 2.feather
C13_Witness ==
    /\ upc = "done"
    /\ process_files = <<10, 2>>
    /\ \E c \in DOMAIN disk : \E j \in DOMAIN disk[c].lines :
           disk[c].lines[j].processed_docs.sents = <<>>
    /\ \E c \in DOMAIN disk : \E j \in DOMAIN disk[c].lines :
           \E n \in DOMAIN disk[c].lines[j].processed_docs.sents :
               disk[c].lines[j].processed_docs.sents[n] = <<>>
    /\ disk[10].lines # disk[2].lines
    /\ Len(LinesFrom(outfile.lines, <<>>)) >= 4

\* C14: whenever a run has closed all.txt - the first run or a later one, after
\* complete or killed runs, whatever the file held before - the file is what one
\* complete run over the artifacts writes to a new file.
C14_DumpIdempotent ==
    upc \in {"done", "failed"} => outfile = File(CompleteRunLines(SortedFiles))

\* a run was killed and left a part of the output that ends inside a line; the
\* next run completed
C14_Witness ==
    /\ upc = "done"
    /\ dumpRuns = 2
    /\ prev = "torn"


-----------------------------------------------------------------------------
(* run_word2vec: the frozen phrase models, the injected phrases, and the     *)
(* sentences trigram[bigram[processed_sentences]] handed to Word2Vec         *)

\* A token is the list of the words that a "_" joins in it: <<"social">> is
\* social, <<"social", "capital">> is social_capital.
PhraseWords == {"corporate", "social", "capital", "supply", "chain", "sustainability"}
ConnectorWords == {"of"}                       \* of ENGLISH_CONNECTOR_WORDS

\* the phrases the models may have learned from the corpus (step 3)
Learnable2 == {<<"corporate", "social">>, <<"supply", "chain">>, <<"chain", "sustainability">>}
Learnable3 == {<<"corporate", "social", "capital">>}

\* the keys set to float('inf'): one of the pairs of lines 116-130, and the triple
Injected2 == {<<"social", "capital">>}
Injected3 == {<<"supply", "chain", "sustainability">>}

\* word not in self.connector_words
IsConnector(token) == \E w \in ConnectorWords : token = <<w>>

RECURSIVE FlattenTokens(_)
FlattenTokens(ts) == IF ts = <<>> THEN <<>> ELSE ts[1] \o FlattenTokens(Tail(ts))

\* self.delimiter.join([word_a] + in_between + [word_b])
JoinPhrase(word_a, in_between, word_b) == word_a \o FlattenTokens(in_between) \o word_b

\* FrozenPhrases.analyze_sentence: one scan from the left; start_token (<<>> for
\* None) is the open candidate, in_between the connector words after it; a
\* candidate whose joined form is a key of phrasegrams is emitted as one token
\* and the scan goes on behind it
RECURSIVE AnalyzeFrom(_, _, _, _)
AnalyzeFrom(sent, start_token, in_between, phrasegrams) ==
    IF sent = <<>>
    THEN IF start_token # <<>> THEN <<start_token>> \o in_between ELSE <<>>
    ELSE LET word == sent[1]
             rest == Tail(sent)
         IN  IF ~IsConnector(word)
             THEN IF start_token # <<>>
                  THEN IF JoinPhrase(start_token, in_between, word) \in phrasegrams
                       THEN <<JoinPhrase(start_token, in_between, word)>>
                                \o AnalyzeFrom(rest, <<>>, <<>>, phrasegrams)
                       ELSE <<start_token>> \o in_between
                                \o AnalyzeFrom(rest, word, <<>>, phrasegrams)
                  ELSE AnalyzeFrom(rest, word, <<>>, phrasegrams)
             ELSE IF start_token # <<>>
                  THEN AnalyzeFrom(rest, start_token, Append(in_between, word), phrasegrams)
                  ELSE <<word>> \o AnalyzeFrom(rest, <<>>, <<>>, phrasegrams)

\* phrases[sentence]
ApplyPhrases(sent, phrasegrams) == AnalyzeFrom(sent, <<>>, <<>>, phrasegrams)

\* the phrasegrams keys are set to float('inf')
Inject ==
    /\ hpc = "loaded"
    /\ phrases2' = phrases2 \cup Injected2
    /\ phrases3' = phrases3 \cup Injected3
    /\ hpc' = "injected"
    /\ UNCHANGED <<sentence, stream, sortVars, dictVars, preVars, tokVars, dumpVars>>

\* bigram[processed_sentences], for one sentence
ApplyBigram ==
    /\ hpc = "injected"
    /\ stream' = ApplyPhrases(sentence, phrases2)
    /\ hpc' = "bigrams"
    /\ UNCHANGED <<sentence, phrases2, phrases3, sortVars, dictVars, preVars, tokVars, dumpVars>>

\* trigram[...], for the sentence bigram[...] gave
ApplyTrigram ==
    /\ hpc = "bigrams"
    /\ stream' = ApplyPhrases(stream, phrases3)
    /\ hpc' = "done"
    /\ UNCHANGED <<sentence, phrases2, phrases3, sortVars, dictVars, preVars, tokVars, dumpVars>>

\* the sentences of the corpus: up to MaxSentLen tokens of one word each
PhraseSentences ==
    UNION {[1..n -> {<<w>> : w \in PhraseWords \cup ConnectorWords}] : n \in 1..MaxSentLen}

InitPhrase ==
    /\ SortIdle
    /\ DictIdle
    /\ PreIdle
    /\ TokIdle
    /\ DumpIdle
    /\ hpc = "loaded"
    /\ sentence \in PhraseSentences
    /\ phrases2 \in SUBSET Learnable2
    /\ phrases3 \in SUBSET Learnable3
    /\ stream = <<>>

NextPhrase == Inject \/ ApplyBigram \/ ApplyTrigram

SpecPhrase == InitPhrase /\ [][NextPhrase]_vars

\* the number of words in the first r tokens of ts
RECURSIVE WordsUpTo(_, _)
WordsUpTo(ts, r) == IF r = 0 THEN 0 ELSE WordsUpTo(ts, r - 1) + Len(ts[r])

\* phrase p stands in the sentence at the words i .. i + Len(p) - 1
OccursAt(p, i) ==
    /\ i + Len(p) - 1 <= Len(sentence)
    /\ \A k \in DOMAIN p : sentence[i + k - 1] = <<p[k]>>

\* C15: in the sentence handed to the training, no token ends inside an
\* occurrence of an injected pair or triple: the words of every occurrence are
\* in one token, whatever phrases the models have learned.
C15_InjectedNeverSplit ==
    hpc = "done" =>
        \A p \in Injected2 \cup Injected3 : \A i \in DOMAIN sentence :
            OccursAt(p, i) =>
                \A r \in DOMAIN stream :
                    WordsUpTo(stream, r) \notin i..(i + Len(p) - 2)

====
